---- MODULE Spec2Model ----
(***************************************************************************)
(* TrafficOntology: the accident/road matcher (run_match_osm_2023.py and   *)
(* run_match_osm_23_24.py), the traffic-sign splitter                      *)
(* (data_raw/split_traffic_signs.py) and the tag-blob decoder parse_hstore.*)
(*                                                                         *)
(* Text is modelled as a sequence of one-character strings, so that        *)
(* replace() and the regular expression act on characters.  A missing      *)
(* value (NaN, None, NULL, a file that does not exist) is the empty tuple, *)
(* a present value v is <<v>>.                                             *)
(***************************************************************************)
EXTENDS Integers, Sequences, FiniteSets, Bags, TLC

VARIABLES
    \* ---- accident/road matcher
    script,              \* which script runs: "2023" or "23_24"
    gpkg_file,           \* OSM_data_filtered.gpkg: Missing, or <<its rows>>
    csv_exists,          \* per year: does ongevallen_<year>_clean.csv exist
    pc,                  \* position of the running script
    year_ix,             \* position of the loop over accidents_files
    gdf_osm_all,         \* the loaded road segments
    gdf_bron,            \* the accidents of the current year after dropna
    names_left,          \* street names the matching loop has yet to visit
    matched_data_list,   \* one joined table per street that had segments
    final_matched_gdf,   \* the table the matcher produced
    out_files,           \* per year: Missing, or <<rows written by to_csv>>
    warned,              \* years whose missing file was only warned about
    error,               \* the exception that ended the run, if any
    \* ---- traffic-sign splitter
    json_file,           \* trafficsigns_wgs84.geojson: Missing, or <<features>>
    s_pc,                \* position of the splitter
    out_dir,             \* has the output directory been created
    signs_by_type,       \* rvv code -> the features bearing it
    chunk_ix,            \* position of the loop over sorted(signs_by_type.items())
    dir_files,           \* the output directory: file name -> features stored
    output_files,        \* the list split_geojson_by_sign_type returns
    metadata,            \* metadata.json: Missing, or <<its content>>
    s_error,             \* the exception that ended the splitter, if any
    \* ---- one category code through the file-name substitution
    rvv_code,            \* a category code
    safe_code,           \* the code after the substitution
    n_file,              \* the file name derived from the code
    n_pc,
    \* ---- parse_hstore
    hstore_string,       \* the argument
    h_result,            \* what the call gave: not yet, a dict, or an exception
    h_pc

mvars == <<script, gpkg_file, csv_exists, pc, year_ix, gdf_osm_all, gdf_bron,
           names_left, matched_data_list, final_matched_gdf, out_files,
           warned, error>>

svars == <<json_file, s_pc, out_dir, signs_by_type, chunk_ix, dir_files,
           output_files, metadata, s_error>>

nvars == <<rvv_code, safe_code, n_file, n_pc>>

hvars == <<hstore_string, h_result, h_pc>>

vars == <<mvars, svars, nvars, hvars>>

------------------------------------------------------------------------------
\* Bounds of the model.
MaxPoints == 2       \* rows of one accidents file
MaxSegments == 2     \* rows of the road layer
MaxFeatures == 2     \* features of the traffic-sign file
MaxCodeLen == 1      \* characters of a category code in that file
MaxSanLen == 3       \* characters of a code put through the substitution alone
MaxHstoreLen == 7    \* characters of an arbitrary tag string
MaxPairs == 2        \* pairs of a well-formed tag string
MaxTailLen == 2      \* characters that follow the pairs of a tag string

------------------------------------------------------------------------------
\* Values.
Missing == <<>>
Opt(S) == {Missing} \cup {<<v>> : v \in S}
SeqsUpTo(S, n) == UNION {[1..k -> S] : k \in 0..n}
Abs(i) == IF i < 0 THEN -i ELSE i

RECURSIVE Concat(_)
Concat(tables) ==
    IF tables = <<>> THEN <<>> ELSE Head(tables) \o Concat(Tail(tables))

SeqToBag(s) ==
    LET vals == {s[i] : i \in 1..Len(s)}
    IN  [v \in vals |-> Cardinality({i \in 1..Len(s) : s[i] = v})]

\* Street names differ only in case: the comparison is exact.
StreetNames == {"A", "a"}
\* Positions along one axis, in the reference system the join runs in.
PointCoords == {0, 1}
SegmentCoords == {0, 2}

Years == <<2023, 2024>>
ScriptYears(s) == IF s = "2023" THEN <<2023>> ELSE Years

\* A row of an accidents file: straatnaam and the (longitude, latitude) pair,
\* either of which may be missing.  dropna removes a row that lacks a field
\* whatever its other field holds, so one row of each incomplete kind is
\* drawn.
AccidentRows ==
    [straatnaam : {<<v>> : v \in StreetNames}, xy : {<<v>> : v \in PointCoords}]
        \cup {[straatnaam |-> Missing, xy |-> <<0>>],
              [straatnaam |-> <<"A">>, xy |-> Missing]}
AccidentTables == SeqsUpTo(AccidentRows, MaxPoints)

\* A row of the road layer: its name (an unnamed road has none) and its
\* geometry (NULL in the layer is Missing).  An unnamed road is selected for
\* no street, so one unnamed row is drawn.
SegmentRows ==
    [name : {<<v>> : v \in StreetNames}, geometry : Opt(SegmentCoords)]
        \cup {[name |-> Missing, geometry |-> <<0>>]}
SegmentTables == SeqsUpTo(SegmentRows, MaxSegments)

NoError == [type |-> "none", path |-> "none"]
CsvPath(y) == IF y = 2023 THEN "ongevallen_2023_clean.csv"
                          ELSE "ongevallen_2024_clean.csv"
GpkgPath == "OSM_data_filtered.gpkg"

------------------------------------------------------------------------------
\* The matcher's steps.

\* pd.read_csv followed by dropna(subset=[longitude, latitude, straatnaam]):
\* rows keep the index label read_csv gave them.
DropNaLocation(table) ==
    LET Indexed == [i \in 1..Len(table) |->
                      [idx |-> i, straatnaam |-> table[i].straatnaam,
                       xy |-> table[i].xy]]
        Usable(r) == r.straatnaam # Missing /\ r.xy # Missing
    IN  SelectSeq(Indexed, Usable)

\* gdf_bron["straatnaam"].unique(): distinct values in order of first appearance.
RECURSIVE UniqueFrom(_, _)
UniqueFrom(rows, seen) ==
    IF rows = <<>> THEN <<>>
    ELSE LET n == Head(rows).straatnaam[1]
         IN  IF n \in seen THEN UniqueFrom(Tail(rows), seen)
             ELSE <<n>> \o UniqueFrom(Tail(rows), seen \cup {n})

Unique(rows) == UniqueFrom(rows, {})

\* gdf_bron[gdf_bron["straatnaam"] == name]
AccidentsOnStreet(rows, name) ==
    LET OnStreet(r) == r.straatnaam[1] = name
    IN  SelectSeq(rows, OnStreet)

\* The road layer with its row labels (index_right of the join).
IndexedSegments(segs) ==
    [j \in 1..Len(segs) |->
        [idx |-> j, name |-> segs[j].name, geometry |-> segs[j].geometry]]

\* A variant that compares names without regard to case.
Lower(n) == IF n = "A" THEN "a" ELSE n
RoadsWithName_IgnoreCase(segs, name) ==
    LET Named(s) == s.name # Missing /\ Lower(s.name[1]) = Lower(name)
    IN  SelectSeq(IndexedSegments(segs), Named)

\* gdf_osm_all[gdf_osm_all["name"] == name]
RoadsWithName(segs, name) ==
    LET Named(s) == s.name # Missing /\ s.name[1] = name
    IN  SelectSeq(IndexedSegments(segs), Named)

Distance(p, s) == Abs(p.xy[1] - s.geometry[1])

\* A variant that joins with max_distance=1: a farther segment is no match.
JoinOne_MaxDistance(p, right) ==
    LET Near(s) == s.geometry # Missing /\ Distance(p, s) <= 1
        valid == SelectSeq(right, Near)
        dmin == CHOOSE d \in {Distance(p, valid[k]) : k \in 1..Len(valid)} :
                   \A k \in 1..Len(valid) : d <= Distance(p, valid[k])
        Nearest(s) == Distance(p, s) = dmin
        near == SelectSeq(valid, Nearest)
    IN  IF valid = <<>>
        THEN <<[idx |-> p.idx, straatnaam |-> p.straatnaam[1], xy |-> p.xy[1],
                index_right |-> Missing, name |-> Missing]>>
        ELSE [k \in 1..Len(near) |->
                 [idx |-> p.idx, straatnaam |-> p.straatnaam[1], xy |-> p.xy[1],
                  index_right |-> <<near[k].idx>>, name |-> near[k].name]]

\* The rows gpd.sjoin_nearest(left, right, how="left") gives one left row: one
\* row per right row at the minimal distance (every equidistant one), and when
\* no right row has a geometry the left row alone, index_right missing.
JoinOne(p, right) ==
    LET HasGeometry(s) == s.geometry # Missing
        valid == SelectSeq(right, HasGeometry)
        dmin == CHOOSE d \in {Distance(p, valid[k]) : k \in 1..Len(valid)} :
                   \A k \in 1..Len(valid) : d <= Distance(p, valid[k])
        Nearest(s) == Distance(p, s) = dmin
        near == SelectSeq(valid, Nearest)
    IN  IF valid = <<>>
        THEN <<[idx |-> p.idx, straatnaam |-> p.straatnaam[1], xy |-> p.xy[1],
                index_right |-> Missing, name |-> Missing]>>
        ELSE [k \in 1..Len(near) |->
                 [idx |-> p.idx, straatnaam |-> p.straatnaam[1], xy |-> p.xy[1],
                  index_right |-> <<near[k].idx>>, name |-> near[k].name]]

RECURSIVE sjoin_nearest(_, _)
sjoin_nearest(left, right) ==
    IF left = <<>> THEN <<>>
    ELSE JoinOne(Head(left), right) \o sjoin_nearest(Tail(left), right)

\* A variant that assigns the list instead of appending to it.
MatchStreet_Overwrite(list, rows, segs, name) ==
    IF RoadsWithName(segs, name) = <<>> THEN list
    ELSE <<sjoin_nearest(AccidentsOnStreet(rows, name), RoadsWithName(segs, name))>>

\* One pass of the loop body for street `name`: the list after the pass.
MatchStreet(list, rows, segs, name) ==
    LET accidents_on_street == AccidentsOnStreet(rows, name)
        roads_with_name == RoadsWithName(segs, name)
    IN  IF roads_with_name = <<>> THEN list
        ELSE Append(list, sjoin_nearest(accidents_on_street, roads_with_name))

\* pd.concat, dropna(subset=["index_right"]), rename name -> osm_road_name.
FinalTable(list) ==
    LET Matched(r) == r.index_right # Missing
        kept == SelectSeq(Concat(list), Matched)
    IN  [k \in 1..Len(kept) |->
            [idx |-> kept[k].idx, straatnaam |-> kept[k].straatnaam,
             xy |-> kept[k].xy, index_right |-> kept[k].index_right[1],
             osm_road_name |-> kept[k].name[1]]]

------------------------------------------------------------------------------
\* Each pipeline is a program of its own; while one runs, the variables of the
\* others rest at these values.
MatchIdle ==
    /\ script = "none" /\ gpkg_file = Missing
    /\ csv_exists = [y \in {2023, 2024} |-> FALSE]
    /\ pc = "idle" /\ year_ix = 1 /\ gdf_osm_all = <<>> /\ gdf_bron = <<>>
    /\ names_left = <<>> /\ matched_data_list = <<>> /\ final_matched_gdf = <<>>
    /\ out_files = [y \in {2023, 2024} |-> Missing]
    /\ warned = {} /\ error = NoError

SplitIdle ==
    /\ json_file = Missing /\ s_pc = "idle" /\ out_dir = FALSE
    /\ signs_by_type = <<>> /\ chunk_ix = 1 /\ dir_files = <<>>
    /\ output_files = <<>> /\ metadata = Missing /\ s_error = NoError

SanitizeIdle ==
    rvv_code = <<>> /\ safe_code = <<>> /\ n_file = <<>> /\ n_pc = "idle"

HstoreIdle ==
    /\ hstore_string = [type |-> "None", text |-> <<>>]
    /\ h_result = [kind |-> "pending", dict |-> <<>>]
    /\ h_pc = "idle"

------------------------------------------------------------------------------
\* The matcher as a state machine.

MatchInit ==
    /\ SplitIdle /\ SanitizeIdle /\ HstoreIdle
    /\ script \in {"2023", "23_24"}
    /\ gpkg_file \in Opt(SegmentTables)
    /\ csv_exists \in [{2023, 2024} -> BOOLEAN]
    /\ (script = "2023" => csv_exists[2024] = FALSE)
    /\ pc = "start"
    /\ year_ix = 1
    /\ gdf_osm_all = <<>>
    /\ gdf_bron = <<>>
    /\ names_left = <<>>
    /\ matched_data_list = <<>>
    /\ final_matched_gdf = <<>>
    /\ out_files = [y \in {2023, 2024} |-> Missing]
    /\ warned = {}
    /\ error = NoError

Raise(type, path) ==
    /\ pc' = "error"
    /\ error' = [type |-> type, path |-> path]

\* A variant that takes a missing accidents file for an empty one.
ReadCsv2023_Skip ==
    /\ script = "2023"
    /\ pc = "start"
    /\ IF ~csv_exists[2023]
       THEN gdf_bron' = <<>>
       ELSE \E table \in AccidentTables : gdf_bron' = DropNaLocation(table)
    /\ pc' = "read_osm"
    /\ UNCHANGED <<svars, nvars, hvars, script, gpkg_file, csv_exists, year_ix,
                   gdf_osm_all, names_left, matched_data_list,
                   final_matched_gdf, out_files, warned, error>>

\* run_match_osm_2023.py, step 1: read the accidents file or fail, then dropna.
ReadCsv2023 ==
    /\ script = "2023"
    /\ pc = "start"
    /\ IF ~csv_exists[2023]
       THEN /\ Raise("FileNotFoundError", CsvPath(2023))
            /\ UNCHANGED gdf_bron
       ELSE /\ \E table \in AccidentTables : gdf_bron' = DropNaLocation(table)
            /\ pc' = "read_osm"
            /\ UNCHANGED error
    /\ UNCHANGED <<svars, nvars, hvars, script, gpkg_file, csv_exists, year_ix, gdf_osm_all,
                   names_left, matched_data_list, final_matched_gdf,
                   out_files, warned>>

\* gpd.read_file of the road layer (an absent file is gpd.read_file's own
\* error), the tag columns, and for the 2023 script the street names to visit.
ReadOsm ==
    /\ \/ script = "2023" /\ pc = "read_osm"
       \/ script = "23_24" /\ pc = "start"
    /\ IF gpkg_file = Missing
       THEN /\ Raise("DataSourceError", GpkgPath)
            /\ UNCHANGED <<gdf_osm_all, names_left>>
       ELSE /\ gdf_osm_all' = gpkg_file[1]
            /\ UNCHANGED error
            /\ IF script = "2023"
               THEN pc' = "loop" /\ names_left' = Unique(gdf_bron)
               ELSE pc' = "year" /\ UNCHANGED names_left
    /\ UNCHANGED <<svars, nvars, hvars, script, gpkg_file, csv_exists, year_ix, gdf_bron,
                   matched_data_list, final_matched_gdf, out_files, warned>>

\* run_match_osm_23_24.py, `for year, accidents_path in accidents_files.items()`:
\* the next year, or the end of main.  The previous year's tables are not read
\* again (match_accidents_to_roads has returned; matched_gdf is reassigned
\* before its next use).
YearLoop ==
    /\ script = "23_24"
    /\ pc = "year"
    /\ pc' = IF year_ix > Len(Years) THEN "done" ELSE "read_csv"
    /\ gdf_bron' = <<>>
    /\ matched_data_list' = <<>>
    /\ final_matched_gdf' = <<>>
    /\ UNCHANGED <<svars, nvars, hvars, script, gpkg_file, csv_exists, year_ix, gdf_osm_all,
                   names_left, out_files, warned, error>>

\* The body of that loop up to the matching loop: a missing file is warned
\* about and skipped; otherwise read_csv, dropna and the street names.
ReadCsvYear ==
    /\ script = "23_24"
    /\ pc = "read_csv"
    /\ IF ~csv_exists[Years[year_ix]]
       THEN /\ warned' = warned \cup {Years[year_ix]}
            /\ year_ix' = year_ix + 1
            /\ pc' = "year"
            /\ UNCHANGED <<gdf_bron, names_left>>
       ELSE /\ \E table \in AccidentTables :
                 /\ gdf_bron' = DropNaLocation(table)
                 /\ names_left' = Unique(DropNaLocation(table))
            /\ pc' = "loop"
            /\ UNCHANGED <<year_ix, warned>>
    /\ UNCHANGED <<svars, nvars, hvars, script, gpkg_file, csv_exists, gdf_osm_all,
                   matched_data_list, final_matched_gdf, out_files, error>>

\* One pass of `for name in unique_bron_names`.
StreetStep ==
    /\ pc = "loop"
    /\ names_left # <<>>
    /\ matched_data_list' =
          MatchStreet(matched_data_list, gdf_bron, gdf_osm_all, Head(names_left))
    /\ names_left' = Tail(names_left)
    /\ UNCHANGED <<svars, nvars, hvars, script, gpkg_file, csv_exists, pc, year_ix, gdf_osm_all,
                   gdf_bron, final_matched_gdf, out_files, warned, error>>

\* After the loop: no table at all is an error; otherwise concat, dropna,
\* rename and to_csv (in the two-year script, then on to the next year).
Finalize ==
    /\ pc = "loop"
    /\ names_left = <<>>
    /\ IF matched_data_list = <<>>
       THEN /\ Raise("RuntimeError", "none")
            /\ UNCHANGED <<final_matched_gdf, out_files, year_ix>>
       ELSE /\ final_matched_gdf' = FinalTable(matched_data_list)
            /\ out_files' = [out_files EXCEPT ![ScriptYears(script)[year_ix]] =
                                <<Len(FinalTable(matched_data_list))>>]
            /\ IF script = "2023"
               THEN pc' = "done" /\ UNCHANGED year_ix
               ELSE pc' = "year" /\ year_ix' = year_ix + 1
            /\ UNCHANGED error
    /\ UNCHANGED <<svars, nvars, hvars, script, gpkg_file, csv_exists, gdf_osm_all, gdf_bron,
                   names_left, matched_data_list, warned>>

MatchNext ==
    ReadCsv2023 \/ ReadOsm \/ YearLoop \/ ReadCsvYear \/ StreetStep \/ Finalize

SpecMatch == MatchInit /\ [][MatchNext]_vars

\* The same script with the streets visited in any order (the order in which a
\* parallel run of the loop would deliver its per-street tables).
RemoveAt(q, i) == [k \in 1..(Len(q) - 1) |-> IF k < i THEN q[k] ELSE q[k + 1]]

StreetStepAny ==
    /\ pc = "loop"
    /\ \E i \in 1..Len(names_left) :
          /\ matched_data_list' =
                MatchStreet(matched_data_list, gdf_bron, gdf_osm_all, names_left[i])
          /\ names_left' = RemoveAt(names_left, i)
    /\ UNCHANGED <<svars, nvars, hvars, script, gpkg_file, csv_exists, pc, year_ix, gdf_osm_all,
                   gdf_bron, final_matched_gdf, out_files, warned, error>>

MatchNextAny ==
    ReadCsv2023 \/ ReadOsm \/ YearLoop \/ ReadCsvYear \/ StreetStepAny \/ Finalize

SpecMatchAnyOrder == MatchInit /\ [][MatchNextAny]_vars

------------------------------------------------------------------------------
\* The traffic-sign splitter.

\* Characters a category code is made of, and their code points (sorted()
\* orders str by code point).
CodeChars == {"A", "/", " ", "_"}
Ord(c) ==
    CASE c = " " -> 32 [] c = "/" -> 47 [] c = "A" -> 65 [] c = "_" -> 95
      [] c = "k" -> 107 [] c = "n" -> 110 [] c = "o" -> 111 [] c = "u" -> 117
      [] c = "w" -> 119

Unknown == <<"u", "n", "k", "n", "o", "w", "n">>
Prefix == <<"t", "r", "a", "f", "f", "i", "c", "_", "s", "i", "g", "n", "s", "_">>
Suffix == <<".", "g", "e", "o", "j", "s", "o", "n">>
JsonPath == "data_raw/trafficsigns_wgs84.geojson"

\* A feature: its place in the file and its properties.rvvCode, if it has one.
Codes == SeqsUpTo(CodeChars, MaxCodeLen)
FeatureLists(k) ==
    {[i \in 1..k |-> [id |-> i, rvvCode |-> c[i]]] : c \in [1..k -> Opt(Codes)]}

\* feature.get('properties', {}).get('rvvCode', 'unknown')
RvvCodeOf(f) == IF f.rvvCode = Missing THEN Unknown ELSE f.rvvCode[1]

\* The grouping loop: a dict filled feature by feature.
RECURSIVE GroupFrom(_, _)
GroupFrom(features, dict) ==
    IF features = <<>> THEN dict
    ELSE LET c == RvvCodeOf(Head(features))
             d == IF c \in DOMAIN dict THEN dict ELSE (c :> <<>>) @@ dict
         IN  GroupFrom(Tail(features), [d EXCEPT ![c] = Append(@, Head(features))])

\* str < str.
RECURSIVE LexLess(_, _)
LexLess(a, b) ==
    IF a = <<>> THEN b # <<>>
    ELSE IF b = <<>> THEN FALSE
    ELSE IF Ord(a[1]) # Ord(b[1]) THEN Ord(a[1]) < Ord(b[1])
    ELSE LexLess(Tail(a), Tail(b))

\* The keys of sorted(signs_by_type.items()).
RECURSIVE SortedCodes(_)
SortedCodes(S) ==
    IF S = {} THEN <<>>
    ELSE LET m == CHOOSE x \in S : \A y \in S \ {x} : LexLess(x, y)
         IN  <<m>> \o SortedCodes(S \ {m})

\* A variant that substitutes the path separator only.
Sanitize_SlashOnly(code) ==
    [i \in 1..Len(code) |-> IF code[i] = "/" THEN "_" ELSE code[i]]

\* rvv_code.replace('/', '_').replace(' ', '_')
Sanitize(code) ==
    LET slash == [i \in 1..Len(code) |-> IF code[i] = "/" THEN "_" ELSE code[i]]
    IN  [i \in 1..Len(slash) |-> IF slash[i] = " " THEN "_" ELSE slash[i]]

\* f'traffic_signs_{safe_code}.geojson'
FileName(safe) == Prefix \o safe \o Suffix

SplitInit ==
    /\ MatchIdle /\ SanitizeIdle /\ HstoreIdle
    /\ \/ json_file = Missing
       \/ \E k \in 0..MaxFeatures : \E features \in FeatureLists(k) :
              json_file = <<features>>
    /\ s_pc = "start"
    /\ out_dir = FALSE
    /\ signs_by_type = <<>>
    /\ chunk_ix = 1
    /\ dir_files = <<>>
    /\ output_files = <<>>
    /\ metadata = Missing
    /\ s_error = NoError

\* load_traffic_signs: the path, or FileNotFoundError naming it.
LoadTrafficSigns ==
    /\ s_pc = "start"
    /\ IF json_file = Missing
       THEN s_pc' = "error" /\ s_error' = [type |-> "FileNotFoundError", path |-> JsonPath]
       ELSE s_pc' = "split" /\ UNCHANGED s_error
    /\ UNCHANGED <<mvars, nvars, hvars, json_file, out_dir, signs_by_type,
                   chunk_ix, dir_files, output_files, metadata>>

\* split_geojson_by_sign_type up to its writing loop: mkdir, json.load, group.
GroupFeatures ==
    /\ s_pc = "split"
    /\ out_dir' = TRUE
    /\ signs_by_type' = GroupFrom(json_file[1], <<>>)
    /\ s_pc' = "write"
    /\ UNCHANGED <<mvars, nvars, hvars, json_file, chunk_ix, dir_files,
                   output_files, metadata, s_error>>

\* One pass of `for rvv_code, sign_features in sorted(signs_by_type.items())`:
\* open(output_file, 'w') replaces a file of that name.
WriteChunk ==
    /\ s_pc = "write"
    /\ chunk_ix <= Len(SortedCodes(DOMAIN signs_by_type))
    /\ LET code == SortedCodes(DOMAIN signs_by_type)[chunk_ix]
           output_file == FileName(Sanitize(code))
       IN  /\ dir_files' = (output_file :> signs_by_type[code]) @@ dir_files
           /\ output_files' = Append(output_files, output_file)
    /\ chunk_ix' = chunk_ix + 1
    /\ UNCHANGED <<mvars, nvars, hvars, json_file, s_pc, out_dir, signs_by_type,
                   metadata, s_error>>

\* The return of the split and create_metadata_file(split_files, ...): one
\* entry per element of the list, with the size of the file of that name.
CreateMetadataFile ==
    /\ s_pc = "write"
    /\ chunk_ix > Len(SortedCodes(DOMAIN signs_by_type))
    /\ metadata' = <<[total_chunks |-> Len(output_files),
                      chunks |-> [i \in 1..Len(output_files) |->
                                    [filename |-> output_files[i],
                                     size |-> Len(dir_files[output_files[i]])]]]>>
    /\ s_pc' = "done"
    /\ UNCHANGED <<mvars, nvars, hvars, json_file, out_dir, signs_by_type,
                   chunk_ix, dir_files, output_files, s_error>>

SplitNext == LoadTrafficSigns \/ GroupFeatures \/ WriteChunk \/ CreateMetadataFile

SpecSplit == SplitInit /\ [][SplitNext]_vars

------------------------------------------------------------------------------
\* Any one of the three programs: a matcher script or the splitter.

PipelinesInit == MatchInit \/ SplitInit

PipelinesNext == MatchNext \/ SplitNext

SpecPipelines == PipelinesInit /\ [][PipelinesNext]_vars

------------------------------------------------------------------------------
\* One category code through the file-name substitution, twice.

SanitizeInit ==
    /\ MatchIdle /\ SplitIdle /\ HstoreIdle
    /\ rvv_code \in SeqsUpTo(CodeChars, MaxSanLen) \cup {Unknown}
    /\ safe_code = <<>>
    /\ n_file = <<>>
    /\ n_pc = "code"

DeriveFileName ==
    /\ n_pc = "code"
    /\ safe_code' = Sanitize(rvv_code)
    /\ n_file' = FileName(Sanitize(rvv_code))
    /\ n_pc' = "safe"
    /\ UNCHANGED <<mvars, svars, hvars, rvv_code>>

SanitizeAgain ==
    /\ n_pc = "safe"
    /\ safe_code' = Sanitize(safe_code)
    /\ n_pc' = "again"
    /\ UNCHANGED <<mvars, svars, hvars, rvv_code, n_file>>

SanitizeNext == DeriveFileName \/ SanitizeAgain

SpecSanitize == SanitizeInit /\ [][SanitizeNext]_vars

------------------------------------------------------------------------------
\* parse_hstore (the same function in both matcher scripts).

Quote == "\""
HstoreChars == {Quote, "=", ">", "k"}
Words == {<<>>, <<"k">>, <<"v">>}
Pairs == [key : Words, value : Words]
PairLists == SeqsUpTo(Pairs, MaxPairs)

\* "key"=>"value","key"=>"value"
RECURSIVE Render(_)
Render(ps) ==
    IF ps = <<>> THEN <<>>
    ELSE <<Quote>> \o Head(ps).key \o <<Quote, "=", ">", Quote>> \o Head(ps).value
           \o <<Quote>> \o (IF Tail(ps) = <<>> THEN <<>> ELSE <<",">> \o Render(Tail(ps)))

\* The least index >= i of a double quote in s, or 0.
FirstQuote(s, i) ==
    LET at == {j \in i..Len(s) : s[j] = Quote}
    IN  IF at = {} THEN 0 ELSE CHOOSE j \in at : \A j2 \in at : j <= j2

\* The least index >= i at which "=>" (with both quotes) starts in s, or 0.
FirstArrow(s, i) ==
    LET at == {j \in i..(Len(s) - 3) :
                  SubSeq(s, j, j + 3) = <<Quote, "=", ">", Quote>>}
    IN  IF at = {} THEN 0 ELSE CHOOSE j \in at : \A j2 \in at : j <= j2

\* re.findall(r'"(.*?)"=>"(.*?)"', s) from index i on: leftmost match, each
\* group as short as it can be, then on from the end of the match.  (No
\* character here is a newline, so `.` matches each.)
RECURSIVE FindAll(_, _)
FindAll(s, i) ==
    LET p == FirstQuote(s, i)
        e == FirstArrow(s, p + 1)
        f == FirstQuote(s, e + 4)
    IN  IF p = 0 THEN <<>>
        ELSE IF e = 0 THEN <<>>
        ELSE IF f = 0 THEN <<>>
        ELSE <<[key |-> SubSeq(s, p + 1, e - 1), value |-> SubSeq(s, e + 4, f - 1)]>>
               \o FindAll(s, f + 1)

\* dict(list of pairs): a later pair replaces an earlier one of the same key.
RECURSIVE ToDict(_, _)
ToDict(found, dict) ==
    IF found = <<>> THEN dict
    ELSE ToDict(Tail(found), (Head(found).key :> Head(found).value) @@ dict)

EmptyDict == [kind |-> "dict", dict |-> <<>>]

parse_hstore(arg) ==
    IF arg.type = "None" THEN EmptyDict
    ELSE IF arg.type # "str" THEN EmptyDict      \* TypeError, caught
    ELSE [kind |-> "dict", dict |-> ToDict(FindAll(arg.text, 1), <<>>)]

\* The arguments tried: None, a value that is no string (a float NaN of an
\* empty other_tags cell), any short string, and well-formed pairs followed by
\* a short tail.
HstoreInit ==
    /\ MatchIdle /\ SplitIdle /\ SanitizeIdle
    /\ \/ hstore_string \in
              {[type |-> "None", text |-> <<>>], [type |-> "float", text |-> <<>>]}
       \/ \E t \in SeqsUpTo(HstoreChars, MaxHstoreLen) :
              hstore_string = [type |-> "str", text |-> t]
       \/ \E ps \in PairLists, t \in SeqsUpTo({Quote, "k"}, MaxTailLen) :
              hstore_string = [type |-> "str", text |-> Render(ps) \o t]
    /\ h_result = [kind |-> "pending", dict |-> <<>>]
    /\ h_pc = "call"

ParseHstore ==
    /\ h_pc = "call"
    /\ h_result' = parse_hstore(hstore_string)
    /\ h_pc' = "returned"
    /\ UNCHANGED <<mvars, svars, nvars, hstore_string>>

HstoreNext == ParseHstore

SpecHstore == HstoreInit /\ [][HstoreNext]_vars

------------------------------------------------------------------------------
\* Properties of the matcher.

Rows(table) == {table[k] : k \in 1..Len(table)}
RowIds(table) == {table[k].idx : k \in 1..Len(table)}

\* The matcher has returned its table for the current year.
Returned == pc \in {"done", "year"} /\ error = NoError

SameNamed(p, s) == s.name # Missing /\ s.name[1] = p.straatnaam[1]

\* C2: every row of the output pairs a point with a segment whose name is
\* exactly the point's street name, also when a segment of another name is
\* nearer.
C2_NameScoped ==
    \A r \in Rows(final_matched_gdf) :
        /\ r.osm_road_name = r.straatnaam
        /\ gdf_osm_all[r.index_right].name = <<r.straatnaam>>

\* A row whose segment is farther from the point than a segment of another name.
C2_Witness ==
    \E r \in Rows(final_matched_gdf) : \E j \in 1..Len(gdf_osm_all) :
        /\ gdf_osm_all[j].name # Missing
        /\ gdf_osm_all[j].name[1] # r.straatnaam
        /\ gdf_osm_all[j].geometry # Missing
        /\ Abs(r.xy - gdf_osm_all[j].geometry[1])
              < Abs(r.xy - gdf_osm_all[r.index_right].geometry[1])

\* C3: each input point yields at most one output row, also when two segments
\* of its street are equally near; so no street has more rows than points.
C3_AtMostOneRow ==
    \A k1, k2 \in 1..Len(final_matched_gdf) :
        final_matched_gdf[k1].idx = final_matched_gdf[k2].idx => k1 = k2

\* C4: a run in which no point is matched ends in an error and writes no
\* output; an empty output table is never written.
C4_NoEmptyOutput ==
    \A y \in {2023, 2024} : out_files[y] # Missing => out_files[y][1] > 0

\* C5 as stated: in every pipeline a missing input file ends the run with an
\* error naming the path, and nothing is processed or written after it is
\* detected.
C5_MissingInputFatal ==
    /\ (warned # {} \/ error.type \in {"FileNotFoundError", "DataSourceError"}
          \/ s_error.type = "FileNotFoundError")
          => (/\ pc = "error" \/ s_pc = "error"
              /\ error.path # "none" \/ s_error.path # "none")
    /\ (2023 \in warned => out_files[2024] = Missing)

\* C5 amended: in the splitter and in the 2023 script a missing input file ends
\* the run with an error naming its path, with nothing processed or written
\* after it (the splitter's output directory is not created); so does a
\* missing road layer in the two-year script.  In the two-year script a
\* missing accidents file of a year is never an error: the year is warned
\* about and skipped, no output is written for it, and the run goes on.
C5_MissingInput ==
    /\ (s_pc # "idle" /\ json_file = Missing) =>
          /\ s_pc \in {"start", "error"}
          /\ s_pc = "error" =>
                s_error = [type |-> "FileNotFoundError", path |-> JsonPath]
          /\ out_dir = FALSE /\ DOMAIN dir_files = {} /\ metadata = Missing
    /\ (script = "2023" /\ ~csv_exists[2023]) =>
          /\ pc \in {"start", "error"}
          /\ pc = "error" =>
                error = [type |-> "FileNotFoundError", path |-> CsvPath(2023)]
          /\ gdf_bron = <<>> /\ gdf_osm_all = <<>> /\ matched_data_list = <<>>
          /\ out_files[2023] = Missing
    /\ (script # "none" /\ gpkg_file = Missing) =>
          /\ pc \in {"start", "read_osm", "error"}
          /\ pc = "error" =>
                \/ error = [type |-> "DataSourceError", path |-> GpkgPath]
                \/ script = "2023" /\ ~csv_exists[2023]
          /\ names_left = <<>> /\ matched_data_list = <<>>
          /\ \A y \in {2023, 2024} : out_files[y] = Missing
    /\ script = "23_24" =>
          /\ error.type # "FileNotFoundError"
          /\ \A y \in {2023, 2024} : ~csv_exists[y] => out_files[y] = Missing
          /\ \A k \in 1..Len(Years) :
                (year_ix > k /\ ~csv_exists[Years[k]]) => Years[k] \in warned
          /\ \A y \in warned : ~csv_exists[y]

\* The two-year script has warned about the missing 2023 file and has gone on
\* to write the output of 2024.
C5_Witness ==
    /\ script = "23_24"
    /\ 2023 \in warned
    /\ out_files[2024] # Missing

\* C6 as stated, for an output that has rows: the points of the output are
\* exactly the usable input points whose street name is the name of at least
\* one segment.
C6_AnySegment ==
    (Returned /\ final_matched_gdf # <<>>) =>
        RowIds(final_matched_gdf) =
            {p.idx : p \in {q \in Rows(gdf_bron) :
                \E j \in 1..Len(gdf_osm_all) : SameNamed(q, gdf_osm_all[j])}}

\* C6 amended: the points of the output are exactly the usable input points
\* whose street name is the name of at least one segment that has a geometry;
\* and the run ends in the no-match error only when no point's street name is
\* the name of any segment.
C6_SegmentWithGeometry ==
    /\ Returned =>
          RowIds(final_matched_gdf) =
              {p.idx : p \in {q \in Rows(gdf_bron) :
                  \E j \in 1..Len(gdf_osm_all) :
                      /\ SameNamed(q, gdf_osm_all[j])
                      /\ gdf_osm_all[j].geometry # Missing}}
    /\ error.type = "RuntimeError" =>
          \A p \in Rows(gdf_bron) : \A j \in 1..Len(gdf_osm_all) :
              ~SameNamed(p, gdf_osm_all[j])

\* An output with a row, beside a usable point that is left out although a
\* segment carries its street name (none of them has a geometry).
C6_Witness ==
    /\ Returned
    /\ final_matched_gdf # <<>>
    /\ \E p \in Rows(gdf_bron) :
          /\ p.idx \notin RowIds(final_matched_gdf)
          /\ \E j \in 1..Len(gdf_osm_all) : SameNamed(p, gdf_osm_all[j])

\* The rows the join owes street `name`, read off the two tables without any
\* order of processing.
OwedRows(name) ==
    {[idx |-> p.idx, straatnaam |-> name, xy |-> p.xy[1],
      index_right |-> j, osm_road_name |-> name] :
        <<p, j>> \in {<<q, i>> \in Rows(gdf_bron) \X (1..Len(gdf_osm_all)) :
            /\ q.straatnaam[1] = name
            /\ SameNamed(q, gdf_osm_all[i])
            /\ gdf_osm_all[i].geometry # Missing
            /\ \A i2 \in 1..Len(gdf_osm_all) :
                  (SameNamed(q, gdf_osm_all[i2]) /\ gdf_osm_all[i2].geometry # Missing)
                    => Abs(q.xy[1] - gdf_osm_all[i].geometry[1])
                         <= Abs(q.xy[1] - gdf_osm_all[i2].geometry[1])}}

Visited == {Unique(gdf_bron)[k] : k \in 1..Len(Unique(gdf_bron))}
               \ {names_left[k] : k \in 1..Len(names_left)}

\* C10: whatever the order in which the streets are visited, the rows gathered
\* so far are, as a multiset, the rows owed to the streets visited, and the
\* output is the rows owed to all streets: a street's rows depend on that
\* street's points and segments only.
C10_OrderIndependent ==
    /\ pc = "loop" =>
          SeqToBag(FinalTable(matched_data_list))
              = SetToBag(UNION {OwedRows(n) : n \in Visited})
    /\ Returned =>
          SeqToBag(final_matched_gdf)
              = SetToBag(UNION {OwedRows(n) : n \in Visited})

\* An output with rows of two streets, the street that appears first in the
\* accidents file not being the first in the output.
C10_Witness ==
    /\ Returned
    /\ Len(final_matched_gdf) >= 2
    /\ final_matched_gdf[1].straatnaam # Unique(gdf_bron)[1]
    /\ \E r \in Rows(final_matched_gdf) : r.straatnaam = Unique(gdf_bron)[1]

------------------------------------------------------------------------------
\* Properties of the splitter.

Chars(text) == {text[i] : i \in 1..Len(text)}
Elems(q) == {q[i] : i \in 1..Len(q)}

\* The split has written its last file.
SplitComplete ==
    \/ s_pc = "write" /\ chunk_ix > Len(SortedCodes(DOMAIN signs_by_type))
    \/ s_pc = "done"

\* C1: after the split every input feature is in exactly one output file, once,
\* and every output file holds exactly the features bearing one category code.
C1_Partition ==
    SplitComplete =>
        /\ \A f \in Elems(json_file[1]) :
              Cardinality({<<n, i>> \in UNION {{n} \X (1..Len(dir_files[n])) : n \in DOMAIN dir_files} :
                              dir_files[n][i] = f}) = 1
        /\ \A n \in DOMAIN dir_files :
              \E c \in {RvvCodeOf(f) : f \in Elems(json_file[1])} :
                  LET Bears(f) == RvvCodeOf(f) = c
                  IN  dir_files[n] = SelectSeq(json_file[1], Bears)

\* C7: the file name derived from a category code holds neither a path
\* separator nor a space, and substituting again changes nothing.
C7_SafeFileName ==
    /\ n_pc \in {"safe", "again"} => ("/" \notin Chars(n_file) /\ " " \notin Chars(n_file))
    /\ n_pc = "again" => FileName(safe_code) = n_file

\* A code with a path separator and a space, substituted twice.
C7_Witness ==
    /\ n_pc = "again"
    /\ "/" \in Chars(rvv_code)
    /\ " " \in Chars(rvv_code)

\* C8: the manifest lists every file the split wrote exactly once, and
\* total_chunks is the number of those files.
C8_Manifest ==
    s_pc = "done" =>
        LET m == metadata[1]
        IN  /\ {m.chunks[i].filename : i \in 1..Len(m.chunks)} = DOMAIN dir_files
            /\ \A i, j \in 1..Len(m.chunks) :
                  m.chunks[i].filename = m.chunks[j].filename => i = j
            /\ m.total_chunks = Cardinality(DOMAIN dir_files)

------------------------------------------------------------------------------
\* Properties of parse_hstore.

QuoteCount(s) == Cardinality({i \in 1..Len(s) : s[i] = Quote})
Keys(ps) == {ps[i].key : i \in 1..Len(ps)}

\* C9: parse_hstore never raises; it gives the empty mapping for None, for the
\* empty string, for a value that is no string and for a string with unbalanced
\* quotes; and for well-formed pairs it gives exactly those keys with those
\* values.
C9_Decoder ==
    h_pc = "returned" =>
        /\ h_result.kind = "dict"
        /\ (hstore_string.type # "str" \/ hstore_string.text = <<>>)
              => DOMAIN h_result.dict = {}
        /\ (hstore_string.type = "str" /\ QuoteCount(hstore_string.text) % 2 = 1)
              => DOMAIN h_result.dict = {}
        /\ \A ps \in PairLists :
              (/\ hstore_string.type = "str"
               /\ hstore_string.text = Render(ps)
               /\ Cardinality(Keys(ps)) = Len(ps))
                => /\ DOMAIN h_result.dict = Keys(ps)
                   /\ \A i \in 1..Len(ps) : h_result.dict[ps[i].key] = ps[i].value

====
